---- MODULE Spec2Model ----
(***************************************************************************)
(* Mofa's Kitchen Buddy (src/main.py): the ingredient and recipe store,    *)
(* the recipe log file, the image upload and the keyword chat responder.   *)
(*                                                                         *)
(* Text is a sequence of tokens.  User-supplied text is a sequence of      *)
(* one-character strings; a literal of the source (a label of the log      *)
(* block, a response prefix) is one token, split at its newlines so that   *)
(* "\n" is always a token of its own.  No literal of the source contains   *)
(* a keyword of the chat responder and every literal ends or starts with   *)
(* a character that is not a letter, so substring tests on the tokens      *)
(* agree with substring tests on the characters.                           *)
(*                                                                         *)
(* An optional value (a nullable column, an Optional field) is None, the   *)
(* empty tuple, or Some(v), the one-element tuple.                         *)
(***************************************************************************)
EXTENDS Integers, Sequences, FiniteSets, TLC

VARIABLES
    ingredients,   \* table "ingredients": id -> row
    recipes,       \* table "recipes": id -> row
    logfile,       \* recipes/my_fav_recipes.txt: [exists, content]
    now,           \* datetime.utcnow(), as a logical clock
    resp,          \* the response to the request handled last
    pc,            \* per in-flight request: the handler's position
    req            \* per in-flight request: the handler's locals

vars == <<ingredients, recipes, logfile, now, resp, pc, req>>

----------------------------------------------------------------------------
(* Bounds of the model *)

MaxId == 2          \* largest id the ingredients table assigns
MaxRecipes == 2     \* rows of the recipes table
MaxBlocks == 2      \* blocks appended to the log after its header
MaxTime == 1        \* ticks of the clock

----------------------------------------------------------------------------
(* Optional values and text *)

None == <<>>
Some(v) == <<v>>
IsNone(o) == o = None
Get(o) == o[1]

NL == "\n"

UpperCase ==
    <<"A","B","C","D","E","F","G","H","I","J","K","L","M",
      "N","O","P","Q","R","S","T","U","V","W","X","Y","Z">>
LowerCase ==
    <<"a","b","c","d","e","f","g","h","i","j","k","l","m",
      "n","o","p","q","r","s","t","u","v","w","x","y","z">>

\* str.lower() on one token
LowerChar(c) ==
    IF \E i \in 1..26 : UpperCase[i] = c
    THEN LowerCase[CHOOSE i \in 1..26 : UpperCase[i] = c]
    ELSE c

\* str.lower()
Lower(s) == [i \in 1..Len(s) |-> LowerChar(s[i])]

\* `kw in s`
Contains(s, kw) ==
    \E i \in 1..(Len(s) - Len(kw) + 1) : SubSeq(s, i, i + Len(kw) - 1) = kw

\* s.startswith(p)
StartsWith(s, p) == Len(s) >= Len(p) /\ SubSeq(s, 1, Len(p)) = p

IsPrefix(p, s) == StartsWith(s, p)

\* s.split('\n'): the lines of s, the last one included when it is empty
RECURSIVE SplitLines(_)
SplitLines(s) ==
    IF \A i \in 1..Len(s) : s[i] # NL
    THEN <<s>>
    ELSE LET k == CHOOSE i \in 1..Len(s) :
                      s[i] = NL /\ \A j \in 1..(i - 1) : s[j] # NL
         IN  <<SubSeq(s, 1, k - 1)>> \o SplitLines(SubSeq(s, k + 1, Len(s)))

\* [line for line in lines if kw in line.lower()]
RECURSIVE LinesWith(_, _)
LinesWith(lines, kw) ==
    IF lines = <<>> THEN <<>>
    ELSE (IF Contains(Lower(Head(lines)), kw) THEN <<Head(lines)>> ELSE <<>>)
         \o LinesWith(Tail(lines), kw)

\* xs[:n]
Take(xs, n) == SubSeq(xs, 1, IF n < Len(xs) THEN n ELSE Len(xs))

\* sep.join(xs)
RECURSIVE Join(_, _)
Join(xs, sep) ==
    IF xs = <<>> THEN <<>>
    ELSE IF Len(xs) = 1 THEN xs[1]
    ELSE xs[1] \o sep \o Join(Tail(xs), sep)

IsSpace(c) == c \in {" ", NL, "\t"}

\* str.strip()
RECURSIVE LStrip(_)
LStrip(s) == IF s # <<>> /\ IsSpace(Head(s)) THEN LStrip(Tail(s)) ELSE s
RECURSIVE RStrip(_)
RStrip(s) ==
    IF s # <<>> /\ IsSpace(s[Len(s)]) THEN RStrip(SubSeq(s, 1, Len(s) - 1)) ELSE s
Strip(s) == RStrip(LStrip(s))

Digit == <<"0","1","2","3","4","5","6","7","8","9">>

\* str(n) for an integer n
RECURSIVE NatStr(_)
NatStr(n) == IF n < 10 THEN <<Digit[n + 1]>> ELSE NatStr(n \div 10) \o <<Digit[(n % 10) + 1]>>
IntStr(n) == IF n < 0 THEN <<"-">> \o NatStr(0 - n) ELSE NatStr(n)

\* f"{v}" of an optional string: None is rendered as the text None
OptStr(o) == IF IsNone(o) THEN <<"N","o","n","e">> ELSE Get(o)

Max(S) == CHOOSE m \in S : \A k \in S : k <= m

\* the ids of a table in the order an unordered query returns them (rowid order)
RECURSIVE IdSeq(_)
IdSeq(S) ==
    IF S = {} THEN <<>>
    ELSE LET m == CHOOSE k \in S : \A j \in S : k <= j
         IN  <<m>> \o IdSeq(S \ {m})

\* the id the store assigns to a new row: one more than the largest rowid
NewId(table) == IF DOMAIN table = {} THEN 1 ELSE Max(DOMAIN table) + 1

----------------------------------------------------------------------------
(* The store: tables, constraints, queries *)

MaxThreads == 2     \* requests in flight at once

Slots == 1..MaxThreads

IngredientFields == {"name", "quantity", "unit", "category", "expiry_date"}

\* Ingredient(**ingredient.dict()) with the column default of last_updated
IngredientRow(p, t) ==
    [name |-> Some(p.name), quantity |-> Some(p.quantity), unit |-> Some(p.unit),
     category |-> p.category, expiry_date |-> p.expiry_date, last_updated |-> t]

\* Recipe(**recipe.dict()) with the column default of created_at
RecipeRow(p, t) ==
    [name |-> p.name, cuisine_type |-> p.cuisine_type,
     preparation_time |-> p.preparation_time,
     difficulty_level |-> p.difficulty_level, taste_profile |-> p.taste_profile,
     instructions |-> p.instructions, ingredients_list |-> p.ingredients_list,
     created_at |-> t]

\* the ORM object of row id, as the handler returns it
Entity(table, id) == [id |-> id, row |-> table[id]]

\* unique=True on Ingredient.name: the commit raises when two rows carry the
\* same name (SQL NULLs are distinct from one another)
UniqueViolation(table) ==
    \E i, j \in DOMAIN table :
        i # j /\ ~IsNone(table[i].name) /\ table[i].name = table[j].name

\* a commit that cannot fail
CommitAlways(committed, pending, ok) == pending

\* db.commit() of the pending table, db.rollback() when it raises
Commit(committed, pending, ok) == IF ok THEN pending ELSE committed

\* the table with a row added (db.add) or replaced (setattr)
Put(table, id, row) ==
    [i \in DOMAIN table \cup {id} |-> IF i = id THEN row ELSE table[i]]

\* a delete that takes every row up to id with it
RemoveUpTo(table, id) == [i \in {j \in DOMAIN table : j > id} |-> table[i]]

\* the table without row id (db.delete)
Remove(table, id) == [i \in DOMAIN table \ {id} |-> table[i]]

\* query.all() without ORDER BY
AllRows(table) ==
    LET ids == IdSeq(DOMAIN table)
    IN  [k \in 1..Len(ids) |-> Entity(table, ids[k])]

\* `if category:` -- None and the empty string are both falsy
Truthy(o) == ~IsNone(o) /\ Get(o) # <<>>

\* query.filter(column == v) when the filter value is truthy
RECURSIVE FilterBy(_, _, _)
FilterBy(es, field, v) ==
    IF es = <<>> THEN <<>>
    ELSE (IF es[1].row[field] = v THEN <<es[1]>> ELSE <<>>)
         \o FilterBy(Tail(es), field, v)

ApplyFilter(es, field, o) == IF Truthy(o) THEN FilterBy(es, field, o) ELSE es

\* query.offset(skip).limit(limit): SQLite reads a negative OFFSET as 0 and a
\* negative LIMIT as no limit
Window(es, skip, limit) ==
    LET off == IF skip < 0 THEN 0 ELSE skip
        rest == SubSeq(es, off + 1, Len(es))
    IN  IF limit < 0 THEN rest ELSE Take(rest, limit)

\* response_model=IngredientModel: name, quantity and unit are required, so
\* an entity that lacks one fails response validation (500)
ValidIngredient(e) ==
    ~IsNone(e.row.name) /\ ~IsNone(e.row.quantity) /\ ~IsNone(e.row.unit)

----------------------------------------------------------------------------
(* Responses *)

\* the request handled and the response to it; ocr tells whether the handler
\* called process_recipe_image
Response(op, args, status, body) ==
    [op |-> op, args |-> args, status |-> status, body |-> body, ocr |-> FALSE]

NotFoundDetail == <<"Ingredient not found">>
ErrorDetail == <<"str(e)">>
DeletedMessage == <<"Ingredient deleted successfully">>
ValidationDetail == <<"Internal Server Error">>

Idle == \A s \in Slots : pc[s] = "idle"

----------------------------------------------------------------------------
(* Ingredient routes *)

\* POST /ingredients/
CreateIngredient(p) ==
    LET id == NewId(ingredients)
        pending == Put(ingredients, id, IngredientRow(p, now))
        ok == ~UniqueViolation(pending)
    IN  /\ Idle
        /\ id <= MaxId \/ ~ok
        /\ ingredients' = Commit(ingredients, pending, ok)
        /\ resp' = IF ok
                   THEN Response("create_ingredient", [payload |-> p], 200, Entity(pending, id))
                   ELSE Response("create_ingredient", [payload |-> p], 400, ErrorDetail)
        /\ UNCHANGED <<recipes, logfile, now, pc, req>>

\* an update by payload.dict() without exclude_unset: unsupplied fields
\* become null
UpdatedRowAll(row, p, t) ==
    [f \in DOMAIN row |->
        IF f = "last_updated" THEN t
        ELSE IF f \in DOMAIN p THEN p[f] ELSE None]

\* ingredient.dict(exclude_unset=True) applied with setattr, then last_updated
UpdatedRow(row, p, t) ==
    [f \in DOMAIN row |->
        IF f = "last_updated" THEN t
        ELSE IF f \in DOMAIN p THEN p[f] ELSE row[f]]

\* PUT /ingredients/{ingredient_id}
UpdateIngredient(id, p) ==
    /\ Idle
    /\ IF id \notin DOMAIN ingredients
       THEN /\ resp' = Response("update_ingredient", [id |-> id, payload |-> p], 404, NotFoundDetail)
            /\ UNCHANGED ingredients
       ELSE LET pending == Put(ingredients, id, UpdatedRow(ingredients[id], p, now))
                ok == ~UniqueViolation(pending)
            IN  /\ ingredients' = Commit(ingredients, pending, ok)
                /\ resp' = IF ~ok
                           THEN Response("update_ingredient", [id |-> id, payload |-> p], 400, ErrorDetail)
                           ELSE IF ValidIngredient(Entity(pending, id))
                           THEN Response("update_ingredient", [id |-> id, payload |-> p], 200, Entity(pending, id))
                           ELSE Response("update_ingredient", [id |-> id, payload |-> p], 500, ValidationDetail)
    /\ UNCHANGED <<recipes, logfile, now, pc, req>>

\* DELETE /ingredients/{ingredient_id}
DeleteIngredient(id) ==
    /\ Idle
    /\ IF id \notin DOMAIN ingredients
       THEN /\ resp' = Response("delete_ingredient", [id |-> id], 404, NotFoundDetail)
            /\ UNCHANGED ingredients
       ELSE /\ ingredients' = Commit(ingredients, Remove(ingredients, id), TRUE)
            /\ resp' = Response("delete_ingredient", [id |-> id], 200, DeletedMessage)
    /\ UNCHANGED <<recipes, logfile, now, pc, req>>

\* the rows a list request selects
ListResult(table, field, o, skip, limit) ==
    Window(ApplyFilter(AllRows(table), field, o), skip, limit)

\* GET /ingredients/
ListIngredients(skip, limit, category) ==
    LET result == ListResult(ingredients, "category", category, skip, limit)
        args == [skip |-> skip, limit |-> limit, filter |-> category]
    IN  /\ Idle
        /\ resp' = IF \A k \in 1..Len(result) : ValidIngredient(result[k])
                   THEN Response("list_ingredients", args, 200, result)
                   ELSE Response("list_ingredients", args, 500, ValidationDetail)
        /\ UNCHANGED <<ingredients, recipes, logfile, now, pc, req>>

----------------------------------------------------------------------------
(* The recipe log *)

DashCount == 50

Dashes == [i \in 1..DashCount |-> "-"]

Header == <<"# Mofa's Kitchen Buddy - Recipe Collection", NL, NL>>

Absent == [exists |-> FALSE, content |-> <<>>]

\* open(path, "w") ... write(header): creates the file or truncates it
CreateLog == [exists |-> TRUE, content |-> Header]

\* ensure_recipe_directory() run without interruption: the os.path.exists
\* check, then the create
EnsureRecipeDirectory(f) == IF f.exists THEN f ELSE CreateLog

\* open(path, "a") ... write: creates the file when it is absent
AppendToFile(f, text) ==
    [exists |-> TRUE, content |-> (IF f.exists THEN f.content ELSE <<>>) \o text]

\* the block save_recipe_to_file writes
RecipeBlock(r) ==
    <<NL, "RECIPE: ">> \o OptStr(r.name) \o <<NL>>
    \o <<"Cuisine: ">> \o OptStr(r.cuisine_type) \o <<NL>>
    \o <<"Prep Time: ">> \o IntStr(Get(r.preparation_time)) \o <<" minutes", NL>>
    \o <<"Difficulty: ">> \o OptStr(r.difficulty_level) \o <<NL>>
    \o <<"Taste: ">> \o OptStr(r.taste_profile) \o <<NL>>
    \o <<"Ingredients:", NL>> \o OptStr(r.ingredients_list) \o <<NL>>
    \o <<"Instructions:", NL>> \o OptStr(r.instructions) \o <<NL>>
    \o Dashes \o <<NL>>

\* a save that opens the log with mode "w"
WriteRecipeToFile(f, r) == [exists |-> TRUE, content |-> RecipeBlock(r)]

\* save_recipe_to_file(recipe)
SaveRecipeToFile(f, r) == AppendToFile(EnsureRecipeDirectory(f), RecipeBlock(r))

\* the block upload_recipe_image writes
ImageBlock(text) ==
    <<NL, "RECIPE FROM IMAGE:", NL>> \o text \o <<NL>> \o Dashes \o <<NL>>

\* the blocks a log holds, counted by their first label
BlockCount(f) ==
    IF ~f.exists THEN 0
    ELSE Cardinality({i \in 1..Len(f.content) :
                         f.content[i] \in {"RECIPE: ", "RECIPE FROM IMAGE:"}})

----------------------------------------------------------------------------
(* Recipe routes *)

Medium == <<"M","e","d","i","u","m">>

\* RecipeCreate: difficulty_level defaults to "Medium" when the body omits it
RecipeCreate(j) ==
    [name |-> Some(j.name), cuisine_type |-> Some(j.cuisine_type),
     preparation_time |-> Some(j.preparation_time),
     difficulty_level |->
        IF "difficulty_level" \in DOMAIN j THEN j.difficulty_level ELSE Some(Medium),
     taste_profile |-> Some(j.taste_profile),
     instructions |-> Some(j.instructions),
     ingredients_list |-> Some(j.ingredients_list)]

\* POST /recipes/ ; commitOk and appendOk are the store's and the file
\* system's answers to the commit and to the append
CreateRecipe(j, commitOk, appendOk) ==
    LET id == NewId(recipes)
        pending == Put(recipes, id, RecipeRow(RecipeCreate(j), now))
        args == [body |-> j, commitOk |-> commitOk, appendOk |-> appendOk]
    IN  /\ Idle
        /\ id <= MaxRecipes
        /\ BlockCount(logfile) < MaxBlocks
        /\ recipes' = Commit(recipes, pending, commitOk)
        /\ IF ~commitOk
           THEN /\ UNCHANGED logfile
                /\ resp' = Response("create_recipe", args, 400, ErrorDetail)
           ELSE IF ~appendOk
           THEN /\ logfile' = EnsureRecipeDirectory(logfile)
                /\ resp' = Response("create_recipe", args, 400, ErrorDetail)
           ELSE /\ logfile' = SaveRecipeToFile(logfile, pending[id])
                /\ resp' = Response("create_recipe", args, 200, Entity(pending, id))
        /\ UNCHANGED <<ingredients, now, pc, req>>

\* GET /recipes/
ListRecipes(skip, limit, cuisine_type) ==
    /\ Idle
    /\ resp' = Response("list_recipes",
                        [skip |-> skip, limit |-> limit, filter |-> cuisine_type], 200,
                        ListResult(recipes, "cuisine_type", cuisine_type, skip, limit))
    /\ UNCHANGED <<ingredients, recipes, logfile, now, pc, req>>

\* the prefix without its slash
ImageWord == <<"i","m","a","g","e">>

\* the prefix upload_recipe_image asks of the content type
ImagePrefix == <<"i","m","a","g","e","/">>

NotImageDetail == <<"File must be an image">>
SavedMessage == <<"Recipe image processed and saved successfully">>

\* process_recipe_image: pytesseract's text, stripped
ProcessRecipeImage(raw) == Strip(raw)

\* POST /recipes/upload-image/ ; image.kind is "unreadable" (Image.open
\* raises), "unrecognised" (pytesseract raises) or "text" (image.raw is what
\* pytesseract reads)
UploadRecipeImage(content_type, image) ==
    LET args == [content_type |-> content_type, image |-> image]
    IN
    /\ Idle
    /\ IF ~StartsWith(content_type, ImagePrefix)
       THEN /\ resp' = Response("upload_recipe_image", args, 400, NotImageDetail)
            /\ UNCHANGED logfile
       ELSE IF image.kind = "unreadable"
       THEN /\ resp' = Response("upload_recipe_image", args, 400, ErrorDetail)
            /\ UNCHANGED logfile
       ELSE IF image.kind = "unrecognised"
       THEN /\ resp' = [Response("upload_recipe_image", args, 400, ErrorDetail)
                            EXCEPT !.ocr = TRUE]
            /\ UNCHANGED logfile
       ELSE LET text == ProcessRecipeImage(image.raw)
            IN  /\ BlockCount(logfile) < MaxBlocks
                /\ logfile' = AppendToFile(EnsureRecipeDirectory(logfile),
                                           ImageBlock(text))
                /\ resp' = [Response("upload_recipe_image", args, 200,
                                     [message |-> SavedMessage, extracted_text |-> text])
                                EXCEPT !.ocr = TRUE]
    /\ UNCHANGED <<ingredients, recipes, now, pc, req>>

----------------------------------------------------------------------------
(* Chatbot route *)

Sweet == <<"s","w","e","e","t">>
Spicy == <<"s","p","i","c","y">>
Available == <<"a","v","a","i","l","a","b","l","e">>
IngredientsWord == <<"i","n","g","r","e","d","i","e","n","t","s">>

SweetPrefix ==
    <<"Based on your available ingredients, here are some sweet recipes you might like to try:", NL>>
SpicyPrefix ==
    <<"I found these spicy recipes that match your ingredients:", NL>>
HavePrefix == <<"You currently have: ">>
Fallback ==
    <<"I can help you find recipes based on your preferences and available ingredients. ",
      "Would you like something sweet, spicy, or should I list your available ingredients?">>

KeepLines == 3

\* "".join([line for line in recipes.split('\n') if kw in line.lower()][:3])
MatchingLines(text, kw) ==
    Join(Take(LinesWith(SplitLines(text), kw), KeepLines), <<>>)

\* the response logic of chat_with_bot, lines 260 to 279
ChatResponse(message, ingredient_names, text) ==
    LET msg == Lower(message)
    IN  IF Contains(msg, Sweet) THEN SweetPrefix \o MatchingLines(text, Sweet)
        ELSE IF Contains(msg, Spicy) THEN SpicyPrefix \o MatchingLines(text, Spicy)
        ELSE IF Contains(msg, Available) \/ Contains(msg, IngredientsWord)
        THEN HavePrefix \o Join(ingredient_names, <<",", " ">>)
        ELSE Fallback

\* [ing.name.lower() for ing in available_ingredients]
IngredientNames(table) ==
    LET es == AllRows(table)
    IN  [k \in 1..Len(es) |-> Lower(Get(es[k].row.name))]

\* ing.name.lower() raises on a NULL name, open() on an absent file
ChatRaises(table, f) ==
    \/ \E i \in DOMAIN table : IsNone(table[i].name)
    \/ ~f.exists

\* POST /chatbot/chat/
ChatWithBot(message) ==
    /\ Idle
    /\ resp' = IF ChatRaises(ingredients, logfile)
               THEN Response("chat_with_bot", [message |-> message], 500, ErrorDetail)
               ELSE Response("chat_with_bot", [message |-> message], 200,
                             ChatResponse(message, IngredientNames(ingredients),
                                          logfile.content))
    /\ UNCHANGED <<ingredients, recipes, logfile, now, pc, req>>

----------------------------------------------------------------------------
(* The environment *)

\* datetime.utcnow() advances
Tick ==
    /\ Idle
    /\ now < MaxTime
    /\ now' = now + 1
    /\ UNCHANGED <<ingredients, recipes, logfile, resp, pc, req>>

\* the log file is deleted from outside the program (every handler that
\* writes it calls ensure_recipe_directory first for this case)
RemoveLog ==
    /\ logfile.exists
    /\ logfile' = Absent
    /\ UNCHANGED <<ingredients, recipes, now, resp, pc, req>>

----------------------------------------------------------------------------
(* create_recipe and upload_recipe_image, statement by statement, for       *)
(* requests handled at the same time: create_recipe is a sync route and     *)
(* runs in the server's thread pool, upload_recipe_image is an async route  *)
(* and runs on the event loop, one at a time (it does not await between     *)
(* its ensure_recipe_directory and its append).                             *)

InFlight == {s \in Slots : pc[s] # "idle"}

SetPc(s, l) == pc' = [pc EXCEPT ![s] = l]

\* POST /recipes/ up to db.refresh(db_recipe)
StartCreateRecipe(s, j) ==
    LET id == NewId(recipes)
        pending == Put(recipes, id, RecipeRow(RecipeCreate(j), now))
    IN  /\ pc[s] = "idle"
        /\ id <= MaxRecipes
        /\ BlockCount(logfile) + Cardinality(InFlight) < MaxBlocks
        /\ recipes' = Commit(recipes, pending, TRUE)
        /\ req' = [req EXCEPT ![s] =
                      [op |-> "create_recipe", block |-> RecipeBlock(pending[id]),
                       args |-> [body |-> j, commitOk |-> TRUE, appendOk |-> TRUE],
                       body |-> Entity(pending, id)]]
        /\ SetPc(s, "ensure")
        /\ UNCHANGED <<ingredients, logfile, now, resp>>

\* POST /recipes/upload-image/ up to text = process_recipe_image(image)
StartUploadRecipeImage(s, content_type, image) ==
    /\ pc[s] = "idle"
    /\ \A t \in InFlight : req[t].op # "upload_recipe_image"
    /\ StartsWith(content_type, ImagePrefix)
    /\ image.kind = "text"
    /\ BlockCount(logfile) + Cardinality(InFlight) < MaxBlocks
    /\ LET text == ProcessRecipeImage(image.raw)
       IN  req' = [req EXCEPT ![s] =
                      [op |-> "upload_recipe_image", block |-> ImageBlock(text),
                       args |-> [content_type |-> content_type, image |-> image],
                       body |-> [message |-> SavedMessage, extracted_text |-> text]]]
    /\ SetPc(s, "ensure")
    /\ UNCHANGED <<ingredients, recipes, logfile, now, resp>>

\* ensure_recipe_directory: if not os.path.exists(...)
EnsureCheck(s) ==
    /\ pc[s] = "ensure"
    /\ SetPc(s, IF logfile.exists THEN "append" ELSE "create")
    /\ UNCHANGED <<ingredients, recipes, logfile, now, resp, req>>

\* ensure_recipe_directory: with open(..., "w") as f: f.write(header)
EnsureCreate(s) ==
    /\ pc[s] = "create"
    /\ logfile' = CreateLog
    /\ SetPc(s, "append")
    /\ UNCHANGED <<ingredients, recipes, now, resp, req>>

\* with open(..., "a") as f: the writes of the block; then the return
AppendBlock(s) ==
    /\ pc[s] = "append"
    /\ logfile' = AppendToFile(logfile, req[s].block)
    /\ resp' = [Response(req[s].op, req[s].args, 200, req[s].body)
                    EXCEPT !.ocr = (req[s].op = "upload_recipe_image")]
    /\ SetPc(s, "idle")
    /\ req' = [req EXCEPT ![s] = <<>>]
    /\ UNCHANGED <<ingredients, recipes, now>>

----------------------------------------------------------------------------
(* Requests the specifications draw from *)

Egg == <<"E","g","g">>
Fig == <<"F","i","g">>
Dry == <<"d","r","y">>
Gram == <<"g">>
Kilo == <<"k","g">>

\* bodies of POST /ingredients/ (IngredientCreate)
CreatePayloads ==
    [name : {Egg, Fig}, quantity : {1}, unit : {Gram},
     category : {Some(<<>>), Some(Dry)}, expiry_date : {None}]

\* bodies of PUT /ingredients/{id} (IngredientUpdate): any subset of the
\* fields, each with a value or an explicit null
UpdateValues ==
    [name : {None, Some(Egg), Some(Fig)}, quantity : {None, Some(2)},
     unit : {None, Some(Kilo)}, category : {None, Some(<<>>)},
     expiry_date : {None, Some(1)}]

Restrict(r, S) == [f \in S |-> r[f]]

UpdatePayloads ==
    {Restrict(r, S) : r \in UpdateValues, S \in SUBSET IngredientFields}

\* the bodies of PUT that change nothing but the name
NamePayloads == {p \in UpdatePayloads : DOMAIN p \subseteq {"name"}}

Pie == <<"P","i","e">>
Dal == <<"D","a","l">>
Ita == <<"I","t">>
Ind == <<"I","n">>

\* bodies of POST /recipes/ (RecipeCreate)
RecipeBodies ==
    { [name |-> Pie, cuisine_type |-> Ita, preparation_time |-> 30,
       taste_profile |-> <<"S","w","e","e","t">>,
       instructions |-> <<"m","i","x",NL,"s","W","E","E","T","e","n">>,
       ingredients_list |-> Egg],
      [name |-> Dal, cuisine_type |-> Ind, preparation_time |-> 5,
       difficulty_level |-> None,
       taste_profile |-> <<"S","P","I","C","Y">>,
       instructions |-> <<"b","o","i","l">>,
       ingredients_list |-> <<"s","w","e","e","t",NL,"s","p","i","c","y">>] }

ContentTypes ==
    { <<"i","m","a","g","e","/","p","n","g">>,
      <<"t","e","x","t","/","p","l","a","i","n">>,
      <<"i","m","a","g","e">> }

Images ==
    { [kind |-> "unreadable", raw |-> <<>>],
      [kind |-> "unrecognised", raw |-> <<>>],
      [kind |-> "text", raw |-> <<" ","S","w","e","e","t",NL,"t","e","a",NL>>] }

Messages ==
    { <<"S","w","e","e","t">>,
      <<"s","p","i","c","y"," ","s","W","e","e","t">>,
      <<"S","P","I","C","Y"," ","i","n","g","r","e","d","i","e","n","t","s">>,
      <<"A","v","a","i","l","a","b","l","e","?">>,
      <<"h","i">> }

Skips == {-1, 0, 1}
Limits == {-1, 1, 2}
CategoryFilters == {None, Some(<<>>), Some(Dry)}
CuisineFilters == {None, Some(<<>>), Some(Ita)}

NoResponse == Response("none", <<>>, 0, <<>>)

\* the state after the module is loaded: empty tables, the log created by
\* the call of ensure_recipe_directory at line 131
Init ==
    /\ ingredients = <<>>
    /\ recipes = <<>>
    /\ logfile = EnsureRecipeDirectory(Absent)
    /\ now = 0
    /\ resp = NoResponse
    /\ pc = [s \in Slots |-> "idle"]
    /\ req = [s \in Slots |-> <<>>]

----------------------------------------------------------------------------
(* SpecStore: the ingredient routes, one request at a time *)

StoreCreateIngredient == \E p \in CreatePayloads : CreateIngredient(p)
StoreUpdateIngredient ==
    \E id \in 1..(MaxId + 1), p \in NamePayloads : UpdateIngredient(id, p)
StoreDeleteIngredient == \E id \in 1..(MaxId + 1) : DeleteIngredient(id)
StoreListIngredients ==
    \E skip \in Skips, limit \in Limits, c \in CategoryFilters :
        ListIngredients(skip, limit, c)
StoreCreateRecipe ==
    /\ recipes = <<>>
    /\ \E j \in RecipeBodies : CreateRecipe(j, TRUE, TRUE)
StoreListRecipes ==
    \E skip \in {0, 1}, c \in CuisineFilters : ListRecipes(skip, 1, c)

NextStore ==
    \/ StoreCreateIngredient
    \/ StoreUpdateIngredient
    \/ StoreDeleteIngredient
    \/ StoreListIngredients
    \/ StoreCreateRecipe
    \/ StoreListRecipes

SpecStore == Init /\ [][NextStore]_vars

----------------------------------------------------------------------------
(* SpecUpdate: one PUT /ingredients/{id} on a table the program can hold *)

\* rows as POST /ingredients/ leaves them and as a PUT of every field does
DrawnRows(t) ==
    [name : {None, Some(Egg), Some(Fig)}, quantity : {Some(1)}, unit : {Some(Gram)},
     category : {Some(Dry)}, expiry_date : {None}, last_updated : 0..t]
    \cup
    [name : {None, Some(Egg), Some(Fig)}, quantity : {Some(2)}, unit : {None},
     category : {None}, expiry_date : {Some(1)}, last_updated : 0..t]

DrawnIds == {{}, {1}, {2}, {1, 2}}

DrawnTables(t) ==
    {tb \in UNION {[ids -> DrawnRows(t)] : ids \in DrawnIds} : ~UniqueViolation(tb)}

InitUpdate ==
    /\ now \in 0..MaxTime
    /\ ingredients \in DrawnTables(now)
    /\ recipes = <<>>
    /\ logfile = EnsureRecipeDirectory(Absent)
    /\ resp = NoResponse
    /\ pc = [s \in Slots |-> "idle"]
    /\ req = [s \in Slots |-> <<>>]

OneUpdateIngredient ==
    /\ resp = NoResponse
    /\ \E id \in 1..(MaxId + 1), p \in UpdatePayloads : UpdateIngredient(id, p)

NextUpdate == OneUpdateIngredient

SpecUpdate == InitUpdate /\ [][NextUpdate]_vars

----------------------------------------------------------------------------
(* SpecLog: the recipe routes, the upload and the chat, one request at a    *)
(* time, with the ingredient requests the chat needs                        *)

LogCreateIngredient ==
    /\ ingredients = <<>>
    /\ \E p \in {q \in CreatePayloads : q.name = Egg /\ q.category = Some(Dry)} :
           CreateIngredient(p)
LogUpdateIngredient ==
    \E p \in {q \in NamePayloads : q = [name |-> None]} : UpdateIngredient(1, p)
LogDeleteIngredient == DeleteIngredient(1)
LogListIngredients == ListIngredients(0, 100, None)
LogCreateRecipe == \E j \in RecipeBodies : CreateRecipe(j, TRUE, TRUE)
LogListRecipes == ListRecipes(0, 100, None)
LogUploadRecipeImage ==
    \E ct \in ContentTypes, image \in Images : UploadRecipeImage(ct, image)
LogChatWithBot == \E m \in Messages : ChatWithBot(m)

NextLog ==
    \/ LogCreateIngredient
    \/ LogUpdateIngredient
    \/ LogDeleteIngredient
    \/ LogListIngredients
    \/ LogCreateRecipe
    \/ LogListRecipes
    \/ LogUploadRecipeImage
    \/ LogChatWithBot
    \/ RemoveLog

SpecLog == Init /\ [][NextLog]_vars

----------------------------------------------------------------------------
(* SpecFaults: POST /recipes/ when the commit or the append may fail *)

FaultyCreateRecipe ==
    \E j \in RecipeBodies, commitOk \in BOOLEAN, appendOk \in BOOLEAN :
        CreateRecipe(j, commitOk, appendOk)
FaultsListRecipes == ListRecipes(0, 100, None)

NextFaults ==
    \/ FaultyCreateRecipe
    \/ FaultsListRecipes
    \/ RemoveLog
    \/ Tick

SpecFaults == Init /\ [][NextFaults]_vars

----------------------------------------------------------------------------
(* SpecConc: create_recipe and upload_recipe_image handled at the same time *)

ConcStartCreateRecipe ==
    \E s \in Slots, j \in RecipeBodies : StartCreateRecipe(s, j)
ConcStartUploadRecipeImage ==
    \E s \in Slots, ct \in ContentTypes, image \in Images :
        StartUploadRecipeImage(s, ct, image)
ConcEnsureCheck == \E s \in Slots : EnsureCheck(s)
ConcEnsureCreate == \E s \in Slots : EnsureCreate(s)
ConcAppendBlock == \E s \in Slots : AppendBlock(s)
\* the log is deleted only while no request is being handled
ConcRemoveLog == Idle /\ RemoveLog

NextConc ==
    \/ ConcStartCreateRecipe
    \/ ConcStartUploadRecipeImage
    \/ ConcEnsureCheck
    \/ ConcEnsureCreate
    \/ ConcAppendBlock
    \/ ConcRemoveLog

SpecConc == Init /\ [][NextConc]_vars

----------------------------------------------------------------------------
(* Properties.  A step is recognised as a request by the request recorded   *)
(* in resp' together with the handler's action on that request.             *)

IsCreateIngredient ==
    resp'.op = "create_ingredient" /\ CreateIngredient(resp'.args.payload)
IsUpdateIngredient ==
    resp'.op = "update_ingredient"
        /\ UpdateIngredient(resp'.args.id, resp'.args.payload)
IsDeleteIngredient ==
    resp'.op = "delete_ingredient" /\ DeleteIngredient(resp'.args.id)
IsListIngredients ==
    resp'.op = "list_ingredients"
        /\ ListIngredients(resp'.args.skip, resp'.args.limit, resp'.args.filter)
IsCreateRecipe ==
    resp'.op = "create_recipe"
        /\ CreateRecipe(resp'.args.body, resp'.args.commitOk, resp'.args.appendOk)
IsListRecipes ==
    resp'.op = "list_recipes"
        /\ ListRecipes(resp'.args.skip, resp'.args.limit, resp'.args.filter)
IsUploadRecipeImage ==
    resp'.op = "upload_recipe_image"
        /\ UploadRecipeImage(resp'.args.content_type, resp'.args.image)
IsChatWithBot ==
    resp'.op = "chat_with_bot" /\ ChatWithBot(resp'.args.message)

\* what the log holds, nothing when it is absent
LogText(f) == IF f.exists THEN f.content ELSE <<>>

\* the ids of the other rows whose name is n
OthersNamed(table, id, n) == {j \in DOMAIN table \ {id} : table[j].name = n}

(* C1 (as claimed): in every state no two Ingredients have the same name;   *)
(* a create_ingredient whose name another Ingredient has, and an            *)
(* update_ingredient that changes the name to one another Ingredient has,   *)
(* fail with 400 and leave the table as it was.                             *)
C1_UniqueNames ==
    [][ /\ \A i, j \in DOMAIN ingredients' :
               i # j => ingredients'[i].name # ingredients'[j].name
        /\ IsCreateIngredient
             /\ OthersNamed(ingredients, 0, Some(resp'.args.payload.name)) # {}
           => resp'.status = 400 /\ ingredients' = ingredients
        /\ IsUpdateIngredient
             /\ resp'.args.id \in DOMAIN ingredients
             /\ "name" \in DOMAIN resp'.args.payload
             /\ resp'.args.payload.name # ingredients[resp'.args.id].name
             /\ OthersNamed(ingredients, resp'.args.id, resp'.args.payload.name) # {}
           => resp'.status = 400 /\ ingredients' = ingredients
      ]_vars

(* C1, for names that are not null: no two Ingredients have the same        *)
(* non-null name, and a create or an update to a non-null name that another *)
(* Ingredient has fails with 400 and leaves the table as it was.            *)
C1_UniqueNonNullNames ==
    [][ /\ \A i, j \in DOMAIN ingredients' :
               i # j /\ ~IsNone(ingredients'[i].name)
               => ingredients'[i].name # ingredients'[j].name
        /\ IsCreateIngredient
             /\ OthersNamed(ingredients, 0, Some(resp'.args.payload.name)) # {}
           => resp'.status = 400 /\ ingredients' = ingredients
        /\ IsUpdateIngredient
             /\ resp'.args.id \in DOMAIN ingredients
             /\ "name" \in DOMAIN resp'.args.payload
             /\ ~IsNone(resp'.args.payload.name)
             /\ OthersNamed(ingredients, resp'.args.id, resp'.args.payload.name) # {}
           => resp'.status = 400 /\ ingredients' = ingredients
      ]_vars

\* the update of row id by payload p took effect: the supplied fields have
\* the supplied values, the others their old ones, last_updated is the
\* current time, and no other row changed
C2_Applied(id, p) ==
    /\ DOMAIN ingredients' = DOMAIN ingredients
    /\ \A j \in DOMAIN ingredients \ {id} : ingredients'[j] = ingredients[j]
    /\ \A f \in IngredientFields :
           ingredients'[id][f] = IF f \in DOMAIN p THEN p[f] ELSE ingredients[id][f]
    /\ ingredients'[id].last_updated = now

C2_NotFound == resp'.status = 404 /\ ingredients' = ingredients

(* C2 (as claimed): update_ingredient on an existing id changes exactly the *)
(* supplied fields and always sets last_updated to the current time; on an  *)
(* id no Ingredient has it fails with 404 and changes nothing.              *)
C2_Original ==
    [][ IsUpdateIngredient =>
            IF resp'.args.id \in DOMAIN ingredients
            THEN C2_Applied(resp'.args.id, resp'.args.payload)
            ELSE C2_NotFound
      ]_vars

(* C2 (amended): update_ingredient on an existing id changes exactly the    *)
(* supplied fields and sets last_updated to the current time, unless the    *)
(* payload supplies a non-null name that another Ingredient has: then it    *)
(* fails with 400 and changes nothing, last_updated included.  On an id no  *)
(* Ingredient has it fails with 404 and changes nothing.                    *)
C2_Amended ==
    [][ IsUpdateIngredient =>
            LET id == resp'.args.id
                p == resp'.args.payload
            IN  IF id \notin DOMAIN ingredients THEN C2_NotFound
                ELSE IF "name" \in DOMAIN p /\ ~IsNone(p.name)
                          /\ OthersNamed(ingredients, id, p.name) # {}
                THEN resp'.status = 400 /\ ingredients' = ingredients
                ELSE C2_Applied(id, p)
      ]_vars

\* an update of the quantity alone went through on a table of two rows,
\* after the clock had advanced past the row's creation
C2_Witness ==
    /\ resp.op = "update_ingredient"
    /\ resp.status = 200
    /\ DOMAIN resp.args.payload = {"quantity"}
    /\ Cardinality(DOMAIN ingredients) = 2
    /\ now > 0
    /\ ingredients[resp.args.id].last_updated = now
    /\ ingredients[resp.args.id].quantity = Some(2)
    /\ ingredients[resp.args.id].unit = Some(Gram)

(* C3: delete_ingredient on an id no Ingredient has fails with 404 and      *)
(* changes nothing; on an existing id it removes that row and no other, and *)
(* leaves the recipes alone.  An id that is absent stays absent until a     *)
(* create_ingredient is given it, so a later list never shows it and a      *)
(* second delete of it fails with 404.                                      *)
C3_Delete ==
    [][ /\ IsDeleteIngredient =>
               LET id == resp'.args.id
               IN  /\ recipes' = recipes
                   /\ IF id \in DOMAIN ingredients
                      THEN /\ resp'.status = 200
                           /\ DOMAIN ingredients' = DOMAIN ingredients \ {id}
                           /\ \A j \in DOMAIN ingredients' :
                                  ingredients'[j] = ingredients[j]
                      ELSE /\ resp'.status = 404
                           /\ ingredients' = ingredients
        /\ \A id \in DOMAIN ingredients' \ DOMAIN ingredients :
               /\ IsCreateIngredient
               /\ resp'.status = 200
               /\ resp'.body.id = id
        /\ IsListIngredients /\ resp'.status = 200 =>
               \A k \in 1..Len(resp'.body) :
                   /\ resp'.body[k].id \in DOMAIN ingredients'
                   /\ resp'.body[k].row = ingredients'[resp'.body[k].id]
      ]_vars

\* a delete went through and left another Ingredient and a Recipe behind
C3_Witness ==
    /\ resp.op = "delete_ingredient"
    /\ resp.status = 200
    /\ resp.args.id \notin DOMAIN ingredients
    /\ DOMAIN ingredients # {}
    /\ DOMAIN recipes # {}

\* the rows of es whose field equals v, in order
RECURSIVE C4_Matching(_, _, _)
C4_Matching(es, field, v) ==
    IF es = <<>> THEN <<>>
    ELSE (IF es[1].row[field] = v THEN <<es[1]>> ELSE <<>>)
         \o C4_Matching(Tail(es), field, v)

\* body is the window of table's rows matching the filter of the request
C4_IsWindow(table, field, args, body) ==
    LET matching == C4_Matching(AllRows(table), field, args.filter)
        last == IF args.skip + args.limit < Len(matching)
                THEN args.skip + args.limit ELSE Len(matching)
    IN  /\ \A k \in 1..Len(body) : body[k].row[field] = args.filter
        /\ args.skip >= 0 /\ args.limit >= 0
           => body = SubSeq(matching, args.skip + 1, last)

(* C4 (as claimed): for every filter value the caller supplies, the empty   *)
(* string included, list_ingredients and list_recipes return only rows      *)
(* whose category, or cuisine_type, equals it, and the result is the window *)
(* of the matching rows that skips `skip` and holds at most `limit`.        *)
C4_ExactFilter ==
    [][ /\ IsListIngredients /\ resp'.status = 200 /\ ~IsNone(resp'.args.filter)
           => C4_IsWindow(ingredients, "category", resp'.args, resp'.body)
        /\ IsListRecipes /\ resp'.status = 200 /\ ~IsNone(resp'.args.filter)
           => C4_IsWindow(recipes, "cuisine_type", resp'.args, resp'.body)
      ]_vars

\* the texts of a Recipe's fields; a null difficulty_level has no text
C5_FieldTexts(r) ==
    {Get(r.name), Get(r.cuisine_type), IntStr(Get(r.preparation_time)),
     Get(r.taste_profile), Get(r.ingredients_list), Get(r.instructions)}
    \cup (IF IsNone(r.difficulty_level) THEN {} ELSE {Get(r.difficulty_level)})

C5_LeavesLog ==
    \/ IsCreateIngredient \/ IsUpdateIngredient \/ IsDeleteIngredient
    \/ IsListIngredients \/ IsListRecipes \/ IsChatWithBot

(* C5: a successful create_recipe keeps what the log held as a prefix and   *)
(* adds one block at its end (after the header, when the log was absent);   *)
(* the block holds the text of every field of the created Recipe.  No       *)
(* ingredient request, list request or chat request changes the log.        *)
C5_LogBlock ==
    [][ /\ IsCreateRecipe /\ resp'.status = 200 =>
               LET old == LogText(logfile)
                   new == LogText(logfile')
                   base == IF logfile.exists THEN old ELSE Header
                   block == SubSeq(new, Len(base) + 1, Len(new))
               IN  /\ IsPrefix(base, new)
                   /\ IsPrefix(old, new)
                   /\ BlockCount(logfile') = BlockCount(logfile) + 1
                   /\ block # <<>>
                   /\ block[2] = "RECIPE: "
                   /\ \A t \in C5_FieldTexts(resp'.body.row) : Contains(block, t)
                   /\ resp'.body.row = recipes'[resp'.body.id]
        /\ C5_LeavesLog => logfile' = logfile
      ]_vars

\* a Recipe was created when the log already held a block
C5_Witness ==
    /\ resp.op = "create_recipe"
    /\ resp.status = 200
    /\ BlockCount(logfile) = 2
    /\ DOMAIN ingredients # {}

\* the chat's answer to a message, as the claims state it
C6_Answered(message, body) ==
    LET msg == Lower(message)
        names == IngredientNames(ingredients)
        joined == Join(names, <<",", " ">>)
    IN  IF Contains(msg, Sweet) THEN StartsWith(body, SweetPrefix)
        ELSE IF Contains(msg, Spicy) THEN StartsWith(body, SpicyPrefix)
        ELSE IF Contains(msg, Available) \/ Contains(msg, IngredientsWord)
        THEN /\ Len(body) >= Len(joined)
             /\ SubSeq(body, Len(body) - Len(joined) + 1, Len(body)) = joined
        ELSE body = Fallback

(* C6 (as claimed): chat_with_bot answers by the first keyword its          *)
(* lowercased message contains -- sweet, then spicy, then available or      *)
(* ingredients (the stored names, lowercased, joined by ", "), else the     *)
(* fallback -- and changes neither the store nor the log.                   *)
C6_Dispatch ==
    [][ IsChatWithBot /\ logfile.exists =>
            /\ resp'.status = 200
            /\ C6_Answered(resp'.args.message, resp'.body)
            /\ UNCHANGED <<ingredients, recipes, logfile>>
      ]_vars

\* the prefix and up to three matching lines of the log, for a keyword
C7_Expected(prefix, kw, text) ==
    LET matching == LinesWith(SplitLines(text), kw)
        n == IF Len(matching) < 3 THEN Len(matching) ELSE 3
    IN  prefix \o Join(SubSeq(matching, 1, n), <<>>)

(* C7 (as claimed): when the message contains sweet (or else spicy) the     *)
(* response is that keyword's prefix followed by the first three lines of   *)
(* the log, or all when fewer, that contain the keyword in any case.        *)
C7_KeywordLines ==
    [][ IsChatWithBot /\ logfile.exists =>
            LET msg == Lower(resp'.args.message)
            IN  /\ Contains(msg, Sweet) =>
                       /\ resp'.status = 200
                       /\ resp'.body = C7_Expected(SweetPrefix, Sweet, logfile.content)
                /\ ~Contains(msg, Sweet) /\ Contains(msg, Spicy) =>
                       /\ resp'.status = 200
                       /\ resp'.body = C7_Expected(SpicyPrefix, Spicy, logfile.content)
      ]_vars

(* C6 and C7, when every stored Ingredient has a name: the chat answers as  *)
(* both claims say.                                                         *)
C67_WhenNamed ==
    [][ IsChatWithBot /\ logfile.exists
          /\ (\A i \in DOMAIN ingredients : ~IsNone(ingredients[i].name)) =>
            LET msg == Lower(resp'.args.message)
            IN  /\ resp'.status = 200
                /\ C6_Answered(resp'.args.message, resp'.body)
                /\ UNCHANGED <<ingredients, recipes, logfile>>
                /\ Contains(msg, Sweet) =>
                       resp'.body = C7_Expected(SweetPrefix, Sweet, logfile.content)
                /\ ~Contains(msg, Sweet) /\ Contains(msg, Spicy) =>
                       resp'.body = C7_Expected(SpicyPrefix, Spicy, logfile.content)
      ]_vars

\* content_type.startswith('image/'), spelled out
C8_IsImageType(ct) ==
    /\ Len(ct) >= 6
    /\ ct[1] = "i" /\ ct[2] = "m" /\ ct[3] = "a" /\ ct[4] = "g" /\ ct[5] = "e"
    /\ ct[6] = "/"

(* C8: an upload whose content type does not start with image/ fails with   *)
(* 400 without a call of the recognition and without a change of the log;   *)
(* an image that cannot be read or recognised fails with 400 and leaves the *)
(* log unchanged; the log changes only when recognition succeeded, and then *)
(* by an appended block that holds the extracted text.                      *)
C8_Upload ==
    [][ IsUploadRecipeImage =>
            LET ct == resp'.args.content_type
                image == resp'.args.image
                old == LogText(logfile)
                new == LogText(logfile')
            IN  /\ ~C8_IsImageType(ct) =>
                       resp'.status = 400 /\ ~resp'.ocr /\ logfile' = logfile
                /\ C8_IsImageType(ct) /\ image.kind # "text" =>
                       resp'.status = 400 /\ logfile' = logfile
                /\ logfile' # logfile =>
                       /\ C8_IsImageType(ct) /\ image.kind = "text"
                       /\ resp'.status = 200 /\ resp'.ocr
                       /\ IsPrefix(old, new)
                       /\ BlockCount(logfile') = BlockCount(logfile) + 1
                       /\ Contains(SubSeq(new, Len(old) + 1, Len(new)),
                                   resp'.body.extracted_text)
      ]_vars

\* a file that is no image was refused when the log already held a block
C8_Witness ==
    /\ resp.op = "upload_recipe_image"
    /\ ~C8_IsImageType(resp.args.content_type)
    /\ resp.status = 400
    /\ BlockCount(logfile) >= 1

(* C9: when the append to the log fails after the commit, create_recipe     *)
(* answers 400 and the committed Recipe stays in the table; when the commit *)
(* fails, it answers 400, the table is unchanged and the log is unchanged.  *)
C9_Uncoupled ==
    [][ IsCreateRecipe =>
            LET id == NewId(recipes)
            IN  /\ resp'.args.commitOk /\ ~resp'.args.appendOk =>
                       /\ resp'.status = 400
                       /\ DOMAIN recipes' = DOMAIN recipes \cup {id}
                       /\ id \notin DOMAIN recipes
                       /\ recipes'[id].name = Some(resp'.args.body.name)
                       /\ \A j \in DOMAIN recipes : recipes'[j] = recipes[j]
                       /\ BlockCount(logfile') = BlockCount(logfile)
                /\ ~resp'.args.commitOk =>
                       /\ resp'.status = 400
                       /\ recipes' = recipes
                       /\ logfile' = logfile
      ]_vars

\* the first create_recipe committed its row and failed at the append
C9_Witness ==
    /\ resp.op = "create_recipe"
    /\ resp.status = 400
    /\ resp.args.commitOk /\ ~resp.args.appendOk
    /\ DOMAIN recipes = {1}
    /\ BlockCount(logfile) = 0

(* C10 (as claimed): no step of a create_recipe or an upload_recipe_image,  *)
(* the check-then-create of ensure_recipe_directory included, removes what  *)
(* the log holds: the log only grows, however the requests interleave.      *)
C10_AppendOnly ==
    [][ (\E s \in Slots : EnsureCheck(s) \/ EnsureCreate(s) \/ AppendBlock(s))
            => IsPrefix(LogText(logfile), LogText(logfile'))
      ]_vars

====
